---- MODULE Spec2Model ----
(***************************************************************************)
(* Model of the JSON-RPC request pipeline of svc-rpc (handleRpcs and the   *)
(* helpers it calls).  One pipeline instance per request slot; an instance *)
(* is suspended where the code awaits (reading the body, awaiting the      *)
(* method) and the catch block is taken statement by statement.            *)
(***************************************************************************)
EXTENDS Integers, Sequences, FiniteSets, TLC

VARIABLES production, pc, req, js, err, resp, calls, handlerArgs, sink, fnCalls,
          stages, returned, rpcDir, startup, tree, flat, _errors, reported, sharedDefault

vars == <<production, pc, req, js, err, resp, calls, handlerArgs, sink, fnCalls,
          stages, returned, rpcDir, startup, tree, flat, _errors, reported, sharedDefault>>

(* Bounds *)
NumReqs == 1
NumPair == 2
StackLimit == 3
MaxNodes == 4
MaxAdded == 2

(***************************************************************************)
(* JSON values.  Scalars are tokens; an object is the sequence of its own  *)
(* members in insertion order.                                             *)
(***************************************************************************)
Undef == "undefined"

EmptyObj == <<>>

RECURSIVE HasOwn(_, _)
HasOwn(o, k) == IF o = <<>> THEN FALSE
                ELSE IF Head(o).k = k THEN TRUE ELSE HasOwn(Tail(o), k)

RECURSIVE OwnValue(_, _)
OwnValue(o, k) == IF o = <<>> THEN Undef
                  ELSE IF Head(o).k = k THEN Head(o).v ELSE OwnValue(Tail(o), k)

(* Members every plain object inherits from Object.prototype. *)
InheritedFunctions == {"toString", "constructor"}
InheritedObjects == {"__proto__"}

Inherited(k) == IF k \in InheritedFunctions THEN "function:" \o k
                ELSE IF k \in InheritedObjects THEN "object:" \o k
                ELSE Undef

(* o[k] on a plain object: own member first, then the prototype chain. *)
Member(o, k) == IF HasOwn(o, k) THEN OwnValue(o, k) ELSE Inherited(k)

RECURSIVE Replace(_, _, _)
Replace(o, k, v) == IF o = <<>> THEN <<>>
                    ELSE IF Head(o).k = k THEN <<[k |-> k, v |-> v]>> \o Tail(o)
                    ELSE <<Head(o)>> \o Replace(Tail(o), k, v)

(* o[k] = v *)
Assign(o, k, v) == IF HasOwn(o, k) THEN Replace(o, k, v)
                   ELSE Append(o, [k |-> k, v |-> v])

(* an array object, held by reference: the one a schema declares as a default *)
SharedArray == "[tags]"

TypeOf(v) == CASE v = "123" -> "number"
               [] v = SharedArray -> "array"
               [] v = "null" -> "null"
               [] OTHER -> "string"

(* The params member of a request: absent, an object, or another JSON value. *)
NoParams == [k |-> "absent", o |-> EmptyObj]
NumberParams == [k |-> "number", o |-> EmptyObj]
ObjParams(o) == [k |-> "object", o |-> o]

(***************************************************************************)
(* The registry built at start-up: the methods found in the rpc directory  *)
(* and the schemas added to tv4.                                           *)
(***************************************************************************)
NoDefault == Undef

GreetSchema ==
    [type |-> "object",
     required |-> <<>>,
     properties |-> <<[k |-> "name", v |-> [type |-> "string", default |-> "world"]]>>,
     allOf |-> <<>>]

RenderSchema ==
    [type |-> "object",
     required |-> <<>>,
     properties |-> <<[k |-> "toString", v |-> [type |-> "string", default |-> "plain"]]>>,
     allOf |-> <<>>]

(* core.schema.js, a schema file that is no method *)
CoreSchema ==
    [type |-> "object",
     required |-> <<>>,
     properties |-> <<[k |-> "title", v |-> [type |-> "string", default |-> "untitled"]]>>,
     allOf |-> <<>>]

(* base.schema.js, composing core *)
BaseSchema ==
    [type |-> "object",
     required |-> <<>>,
     properties |-> <<[k |-> "name", v |-> [type |-> "string", default |-> "base"]]>>,
     allOf |-> <<"core">>]

(* a method whose schema composes base and declares name itself *)
DerivedSchema ==
    [type |-> "object",
     required |-> <<>>,
     properties |-> <<[k |-> "name", v |-> [type |-> "string", default |-> "own"]]>>,
     allOf |-> <<"base">>]

(* a method whose schema reaches itself through allOf *)
LoopSchema ==
    [type |-> "object",
     required |-> <<>>,
     properties |-> <<[k |-> "name", v |-> [type |-> "string", default |-> "world"]]>>,
     allOf |-> <<"loop">>]

(* a method named in dontDefault *)
QuietSchema ==
    [type |-> "object",
     required |-> <<>>,
     properties |-> <<[k |-> "name", v |-> [type |-> "string", default |-> "world"]]>>,
     allOf |-> <<>>]

(* a method whose schema declares an array as the default of a property *)
CollectSchema ==
    [type |-> "object",
     required |-> <<>>,
     properties |-> <<[k |-> "tags", v |-> [type |-> "array", default |-> SharedArray]]>>,
     allOf |-> <<>>]

(* methods[name] = module, module.paramsSchema *)
methods == [greet |-> [paramsSchema |-> GreetSchema],
            collect |-> [paramsSchema |-> CollectSchema],
            render |-> [paramsSchema |-> RenderSchema],
            derived |-> [paramsSchema |-> DerivedSchema],
            loop |-> [paramsSchema |-> LoopSchema],
            quiet |-> [paramsSchema |-> QuietSchema]]

Registered == DOMAIN methods

(* tv4.addSchema(name, schema); tv4.getSchema(name) *)
tv4Schemas == [greet |-> GreetSchema, render |-> RenderSchema, collect |-> CollectSchema,
               derived |-> DerivedSchema, loop |-> LoopSchema, quiet |-> QuietSchema,
               base |-> BaseSchema, core |-> CoreSchema]

(* the dontDefault option of handleRpcs *)
dontDefault == {"quiet"}

(* The files of the rpc directory the registry above is read from: a method
   file per method, a .schema file per other schema. *)
StandardDir ==
    {[name |-> n, isMethod |-> n \in DOMAIN methods, hasParamsSchema |-> n \in DOMAIN methods] :
        n \in DOMAIN tv4Schemas}

(* the same directory with the README's first rpc, which exports no
   paramsSchema *)
ReadmeDir ==
    StandardDir \cup {[name |-> "example", isMethod |-> TRUE, hasParamsSchema |-> FALSE]}

(* lines 118-121, 147-149: handleRpcs throws on a method without paramsSchema *)
LoadThrows(dir) == \E file \in dir : file.isMethod /\ ~file.hasParamsSchema

(* methods[name] on the plain object methods *)
MethodsMember(name) == IF name \in Registered THEN "module:" \o name ELSE Inherited(name)

Truthy(v) == v # Undef

(***************************************************************************)
(* Validation errors as tv4 builds them.  Pointers are sequences of        *)
(* segments: the data pointer /a/b is <<"a","b">>.                         *)
(***************************************************************************)
Humanize(name) == CASE name = "method" -> "Method"
                    [] name = "name" -> "Name"
                    [] OTHER -> name

(* /required/.test(segment) for the segments that occur *)
MatchesRequired(seg) == seg \in {"required", "requiredBy"}

TestRequired(schemaPath) == \E i \in 1..Len(schemaPath) : MatchesRequired(schemaPath[i])

(* the first reporter of addError.js, else tv4's own message *)
errorReporter(schemaPath, key, got, expected) ==
    IF TestRequired(schemaPath)
    THEN Humanize(key) \o " is required"
    ELSE "Invalid type: " \o got \o " (expected " \o expected \o ")"

ValidationError(dataPath, schemaPath, key, got, expected) ==
    [message |-> errorReporter(schemaPath, key, got, expected),
     params |-> [key |-> key],
     dataPath |-> dataPath,
     schemaPath |-> schemaPath,
     subErrors |-> <<>>]

Valid == [valid |-> TRUE]
Invalid(e) == [valid |-> FALSE, error |-> e]

(* First index of required whose member is undefined in the data, 0 if none. *)
RECURSIVE FirstMissing(_, _, _)
FirstMissing(o, required, i) ==
    IF i > Len(required) THEN 0
    ELSE IF Member(o, required[i]) = Undef THEN i
    ELSE FirstMissing(o, required, i + 1)

(* properties[k] for a declared property k *)
RECURSIVE LookupProperty(_, _)
LookupProperty(properties, k) ==
    IF Head(properties).k = k THEN Head(properties).v
    ELSE LookupProperty(Tail(properties), k)

(* validateObjectProperties: the data's own members in order, first error *)
RECURSIVE ValidateProperties(_, _)
ValidateProperties(o, properties) ==
    IF o = <<>> THEN Valid
    ELSE LET key == Head(o).k
         IN IF /\ HasOwn(properties, key)
               /\ TypeOf(Head(o).v) # LookupProperty(properties, key).type
            THEN Invalid(ValidationError(<<key>>, <<"properties", key, "type">>, Undef,
                                         TypeOf(Head(o).v),
                                         LookupProperty(properties, key).type))
            ELSE ValidateProperties(Tail(o), properties)

(* the call stack ran out: RangeError *)
Overflowed == [valid |-> FALSE, overflow |-> TRUE]

IsOverflow(result) == "overflow" \in DOMAIN result

(* error.prefixWith(null, 'allOf/i') *)
PrefixSchemaPath(result, i) ==
    IF result.valid \/ IsOverflow(result) THEN result
    ELSE Invalid([result.error EXCEPT
                      !.schemaPath = <<"allOf", ToString(i - 1)>> \o @])

(* validateAll(data, schema) at a depth of the call stack: type, then
   required, then properties, then allOf *)
RECURSIVE ValidateAt(_, _, _)
RECURSIVE ValidateAllOf(_, _, _, _)
ValidateAllOf(value, refs, i, depth) ==
    IF i > Len(refs) THEN Valid
    ELSE LET sub == PrefixSchemaPath(ValidateAt(value, tv4Schemas[refs[i]], depth + 1), i)
         IN IF ~sub.valid THEN sub ELSE ValidateAllOf(value, refs, i + 1, depth)

ValidateAt(value, schema, depth) ==
    IF depth > StackLimit THEN Overflowed
    ELSE IF value.k # schema.type
    THEN Invalid(ValidationError(<<>>, <<"type">>, Undef, value.k, schema.type))
    ELSE LET m == FirstMissing(value.o, schema.required, 1)
             own == ValidateProperties(value.o, schema.properties)
         IN IF m # 0
            THEN Invalid(ValidationError(<<>>, <<"required", ToString(m - 1)>>,
                                         schema.required[m], Undef, Undef))
            ELSE IF ~own.valid THEN own
            ELSE ValidateAllOf(value, schema.allOf, 1, depth)

(* tv4.validateResult(value, schema) *)
validateResult(value, schema) == ValidateAt(value, schema, 1)

(***************************************************************************)
(* The request envelope schema (request.schema): an object, method         *)
(* required and a string, params an object when present, id of any type.   *)
(***************************************************************************)
requestRequired == <<"method">>

EnvelopeMember(body, k) == CASE k = "method" -> body.method
                             [] k = "id" -> body.id
                             [] k = "params" -> IF body.params.k = "absent" THEN Undef
                                                ELSE "params"
                             [] OTHER -> Inherited(k)

RECURSIVE FirstMissingMember(_, _)
FirstMissingMember(body, i) ==
    IF i > Len(requestRequired) THEN 0
    ELSE IF EnvelopeMember(body, requestRequired[i]) = Undef THEN i
    ELSE FirstMissingMember(body, i + 1)

validateRequest(body) ==
    IF body.kind # "object"
    THEN Invalid(ValidationError(<<>>, <<"type">>, Undef, body.kind, "object"))
    ELSE LET m == FirstMissingMember(body, 1)
         IN IF m # 0
            THEN Invalid(ValidationError(<<>>, <<"required", ToString(m - 1)>>,
                                         requestRequired[m], Undef, Undef))
            ELSE IF body.method # Undef /\ TypeOf(body.method) # "string"
            THEN Invalid(ValidationError(<<"method">>, <<"properties", "method", "type">>,
                                         Undef, TypeOf(body.method), "string"))
            ELSE IF body.params.k \notin {"absent", "object"}
            THEN Invalid(ValidationError(<<"params">>, <<"properties", "params", "type">>,
                                         Undef, body.params.k, "object"))
            ELSE Valid

(***************************************************************************)
(* _makeHashOutOfValidateErrors.  The hash is a function from member paths *)
(* to messages: the entry <<"a","b">> :> m is the nested object            *)
(* {a: {b: m}}.                                                            *)
(***************************************************************************)
IsPrefix(p, q) == Len(p) <= Len(q) /\ SubSeq(q, 1, Len(p)) = p

(* lodash set(hash, path, message) *)
SetPath(hash, path, message) ==
    LET kept == {q \in DOMAIN hash : ~IsPrefix(q, path) /\ ~IsPrefix(path, q)}
    IN [q \in kept \cup {path} |-> IF q = path THEN message ELSE hash[q]]

(* validateError.dataPath.substring(1).replace(/\//g, '.') as a lodash path *)
DataPathKey(dataPath) == IF dataPath = <<>> THEN <<"">> ELSE dataPath

(* ErrorPath without the required-field case *)
ErrorPathFromDataPath(validateError) == DataPathKey(validateError.dataPath)

ErrorPath(validateError) ==
    IF TestRequired(validateError.schemaPath)
    THEN <<validateError.params.key>>
    ELSE DataPathKey(validateError.dataPath)

RECURSIVE _makeHashOutOfValidateErrors(_, _)
RECURSIVE ReduceSubErrors(_, _)
ReduceSubErrors(acc, subErrors) ==
    IF subErrors = <<>> THEN acc
    ELSE ReduceSubErrors(_makeHashOutOfValidateErrors(acc, Head(subErrors)), Tail(subErrors))

_makeHashOutOfValidateErrors(accumulatedErrors, validateError) ==
    LET set == SetPath(accumulatedErrors, ErrorPath(validateError), validateError.message)
    IN ReduceSubErrors(set, validateError.subErrors)

EmptyHash == [q \in {} |-> ""]

(***************************************************************************)
(* _resolveAndCombineAllOfs                                                *)
(***************************************************************************)
(* Object.assign({}, a, b) *)
RECURSIVE ObjectAssign(_, _)
ObjectAssign(a, b) == IF b = <<>> THEN a
                      ELSE ObjectAssign(Assign(a, Head(b).k, Head(b).v), Tail(b))

(* The recursion is followed with the depth of the call stack: past
   StackLimit frames the engine throws RangeError. *)
Resolved(schema) == [overflow |-> FALSE, schema |-> schema]
ResolveOverflow == [overflow |-> TRUE, schema |-> CoreSchema]

RECURSIVE ResolveAt(_, _)
RECURSIVE CombineRefs(_, _, _)
CombineRefs(prev, refs, depth) ==
    IF refs = <<>> THEN [overflow |-> FALSE, properties |-> prev]
    ELSE LET resolvedSchemaOfRef == ResolveAt(tv4Schemas[Head(refs)], depth + 1)
         IN IF resolvedSchemaOfRef.overflow THEN [overflow |-> TRUE, properties |-> prev]
            ELSE CombineRefs(ObjectAssign(prev, resolvedSchemaOfRef.schema.properties),
                             Tail(refs), depth)

ResolveAt(schema, depth) ==
    IF depth > StackLimit THEN ResolveOverflow
    ELSE IF schema.allOf = <<>> THEN Resolved(schema)
    ELSE LET combinedProperties == CombineRefs(schema.properties, schema.allOf, depth)
         IN IF combinedProperties.overflow THEN ResolveOverflow
            ELSE Resolved([schema EXCEPT !.properties = combinedProperties.properties])

_resolveAndCombineAllOfs(schema) == ResolveAt(schema, 1)

(***************************************************************************)
(* Errors, error data and responses                                        *)
(***************************************************************************)
DNull == [t |-> "null"]
DFalse == [t |-> "false"]
DValue(v) == [t |-> "value", v |-> v]
DHash(h) == [t |-> "hash", h |-> h]
(* serializeError(err) *)
serializeError(e) == [t |-> "serialized", of |-> e]

(* new RpcError(data, message, code) *)
RpcError(data, message, code) ==
    [isRpc |-> TRUE, code |-> code, message |-> message, data |-> data]

(* any other thrown value *)
Fault(f) == [isRpc |-> FALSE, fault |-> f]

NoErr == Fault("none")

(* ErrorResponse leaving data out of the error member *)
ErrorResponseNoData(code, message, data, id) ==
    [jsonrpc |-> "2.0", error |-> [code |-> code, message |-> message], id |-> id]

ErrorResponse(code, message, data, id) ==
    [jsonrpc |-> "2.0", error |-> [code |-> code, message |-> message, data |-> data],
     id |-> id]

(* SuccessResponse dropping the request's id *)
SuccessResponseNullId(result, id) == [jsonrpc |-> "2.0", result |-> result, id |-> "null"]

SuccessResponse(result, id) == [jsonrpc |-> "2.0", result |-> result, id |-> id]

NoResp == [pending |-> TRUE]

(***************************************************************************)
(* Default injection, lines 197-205                                        *)
(***************************************************************************)
(* get(js, ['params', property]) *)
GetParam(params, property) ==
    CASE params.k = "absent" -> Undef
      [] params.k = "object" -> Member(params.o, property)
      [] OTHER -> Inherited(property)

(* set(js, ['params', property], value) *)
SetParam(params, property, value) ==
    IF params.k = "object" THEN ObjParams(Assign(params.o, property, value))
    ELSE ObjParams(Assign(EmptyObj, property, value))

RECURSIVE InjectDefaults(_, _)
InjectDefaults(params, properties) ==
    IF properties = <<>> THEN params
    ELSE LET property == Head(properties).k
             default == Head(properties).v.default
         IN IF default = NoDefault THEN InjectDefaults(params, Tail(properties))
            ELSE IF GetParam(params, property) # Undef
            THEN InjectDefaults(params, Tail(properties))
            ELSE InjectDefaults(SetParam(params, property, default), Tail(properties))

(* methods[name].paramsSchema is truthy *)
HasParamsSchema(name) == name \in Registered

(* DefaultedParams without the dontDefault option *)
DefaultedParamsAlways(name, params) ==
    IF HasParamsSchema(name)
       /\ ~_resolveAndCombineAllOfs(methods[name].paramsSchema).overflow
    THEN InjectDefaults(params,
                        _resolveAndCombineAllOfs(methods[name].paramsSchema).schema.properties)
    ELSE params

DefaultedParams(name, params) ==
    IF HasParamsSchema(name) /\ name \notin dontDefault
       /\ ~_resolveAndCombineAllOfs(methods[name].paramsSchema).overflow
    THEN InjectDefaults(params,
                        _resolveAndCombineAllOfs(methods[name].paramsSchema).schema.properties)
    ELSE params

(* js.params || {} *)
ParamsOrEmpty(params) == IF params.k = "absent" THEN ObjParams(EmptyObj) ELSE params

(***************************************************************************)
(* The synchronous stretch of the try block between the two awaits, lines  *)
(* 180-226: what it throws, or the call it makes, and js as it leaves it.  *)
(***************************************************************************)
Throws(e, j, st) == [t |-> "throw", err |-> e, js |-> j, stages |-> st]
Calls(j, st) == [t |-> "call", js |-> j, stages |-> st]

(* the engine's RangeError for a recursion without end *)
StackExhausted == Fault("RangeError: Maximum call stack size exceeded")

(* line 197: the condition under which defaults are injected *)
Injects(name) == HasParamsSchema(name) /\ name \notin dontDefault

(* ValidateParamsAndCall going on to the call whatever the validation says *)
ValidateParamsAndCallAnyway(j, st) ==
    IF HasParamsSchema(j.method)
    THEN Calls(j, st \o <<"validate", "dispatch">>)
    ELSE IF MethodsMember(j.method) \in {Inherited(k) : k \in InheritedFunctions}
    THEN Calls(j, Append(st, "dispatch"))
    ELSE Throws(Fault("TypeError: methods[js.method] is not a function"), j,
                Append(st, "dispatch"))

ValidateParamsAndCall(j, st) ==
    IF HasParamsSchema(j.method)
    THEN LET methodValidateResult ==
                 validateResult(ParamsOrEmpty(j.params), methods[j.method].paramsSchema)
         IN IF IsOverflow(methodValidateResult)
            THEN Throws(StackExhausted, j, Append(st, "validate"))
            ELSE IF ~methodValidateResult.valid
            THEN Throws(RpcError(DHash(_makeHashOutOfValidateErrors(EmptyHash,
                                           methodValidateResult.error)),
                                 "Invalid params", -32602), j, Append(st, "validate"))
            ELSE Calls(j, st \o <<"validate", "dispatch">>)
    ELSE IF MethodsMember(j.method) \in {Inherited(k) : k \in InheritedFunctions}
    THEN Calls(j, Append(st, "dispatch"))
    ELSE Throws(Fault("TypeError: methods[js.method] is not a function"), j,
                Append(st, "dispatch"))

AfterParse(body) ==
    LET requestValidateResult == validateRequest(body)
    IN IF ~requestValidateResult.valid
       THEN Throws(RpcError(DHash(_makeHashOutOfValidateErrors(EmptyHash,
                                      requestValidateResult.error)),
                            "Invalid request", -32600), body, <<"envelope">>)
       ELSE IF body.kind = "null"
       THEN Throws(Fault("TypeError: Cannot read property 'method' of null"), body,
                   <<"envelope", "lookup">>)
       ELSE IF ~Truthy(MethodsMember(body.method))
       THEN Throws(RpcError(DNull, "Method not found", -32601), body,
                   <<"envelope", "lookup">>)
       ELSE IF /\ Injects(body.method)
               /\ _resolveAndCombineAllOfs(methods[body.method].paramsSchema).overflow
       THEN Throws(StackExhausted, body, <<"envelope", "lookup", "inject">>)
       ELSE ValidateParamsAndCall(
                [body EXCEPT !.params = DefaultedParams(body.method, body.params)],
                IF Injects(body.method)
                THEN <<"envelope", "lookup", "inject">>
                ELSE <<"envelope", "lookup">>)

(***************************************************************************)
(* Inputs: request bodies, content types and what a method may do          *)
(***************************************************************************)
Malformed == [kind |-> "malformed", method |-> Undef, params |-> NoParams, id |-> Undef]
JsonNull == [kind |-> "null", method |-> Undef, params |-> NoParams, id |-> Undef]
JsonNumber == [kind |-> "number", method |-> Undef, params |-> NoParams, id |-> Undef]

MethodValues == {Undef, "123", "greet", "render", "nope", "toString", "__proto__"}

IdValues == {Undef, "null", "1"}

ParamsValues ==
    {NoParams, NumberParams, ObjParams(EmptyObj),
     ObjParams(<<[k |-> "name", v |-> "X"]>>),
     ObjParams(<<[k |-> "name", v |-> "123"]>>),
     ObjParams(<<[k |-> "toString", v |-> "X"]>>)}

ObjectBodies ==
    {[kind |-> "object", method |-> m, params |-> p, id |-> i] :
        m \in MethodValues, p \in ParamsValues, i \in IdValues}

Bodies == {Malformed, JsonNull, JsonNumber} \cup ObjectBodies

(* the requests of the two-pipeline specification *)
PairBodies ==
    {[kind |-> "object", method |-> "greet", params |-> NoParams, id |-> i] :
        i \in {"1", "2"}}

(* the requests of the specification of the shared default *)
SharedBodies ==
    {[kind |-> "object", method |-> "collect", params |-> NoParams, id |-> i] :
        i \in {"1", "2"}}

(* the requests of the specification of the whole registry *)
RegistryBodies ==
    {[kind |-> "object", method |-> m, params |-> p, id |-> "1"] :
        m \in {"greet", "derived", "loop", "quiet", "example"},
        p \in {NoParams, ObjParams(EmptyObj),
               ObjParams(<<[k |-> "name", v |-> "X"]>>),
               ObjParams(<<[k |-> "name", v |-> "123"]>>)}}

(* bodies sent with another content type *)
PassBodies == {Malformed} \cup PairBodies

JsonType == "application/json"
ContentTypes == {JsonType, "text/html", "application/json; charset=utf-8"}

Results == {"hello world", "hello X"}
ApplicationErrors == {RpcError(DNull, "General error", 0),
                      RpcError(DValue("details"), "Not allowed", 403),
                      RpcError(DValue("details"), "Invalid params", -32602)}
Faults == {"Error: boom", "TypeError: x is undefined"}

(* js initialised without an id *)
JsInitNoId == [kind |-> "object", method |-> Undef, params |-> NoParams, id |-> Undef]

(* let js = {id: null} *)
JsInit == [kind |-> "object", method |-> Undef, params |-> NoParams, id |-> "null"]

NoReq == [contentType |-> "none", body |-> Malformed]

(* what the wrapped fn returns *)
FnReturns == {"404", "page"}

(* the error trees the flattener is applied to: nodes of these kinds *)
NodeKinds ==
    {[dataPath |-> <<"a">>, schemaPath |-> <<"properties", "a", "anyOf">>, key |-> Undef],
     [dataPath |-> <<"a", "b">>,
      schemaPath |-> <<"properties", "a", "properties", "b", "type">>, key |-> Undef],
     [dataPath |-> <<>>, schemaPath |-> <<"required", "0">>, key |-> "title"],
     [dataPath |-> <<"requiredBy">>,
      schemaPath |-> <<"properties", "requiredBy", "type">>, key |-> Undef]}

Node(kind, message, subErrors) ==
    [message |-> message,
     params |-> [key |-> kind.key],
     dataPath |-> kind.dataPath,
     schemaPath |-> kind.schemaPath,
     subErrors |-> subErrors]

RECURSIVE TreesOfSize(_)
RECURSIVE ForestsOfSize(_)
TreesOfSize(n) == {Node(kind, "", f) : kind \in NodeKinds, f \in ForestsOfSize(n - 1)}

ForestsOfSize(m) ==
    IF m = 0 THEN {<<>>}
    ELSE UNION {{<<t>> \o f : t \in TreesOfSize(s), f \in ForestsOfSize(m - s)} :
                   s \in 1..m}

RECURSIVE TreeSize(_)
RECURSIVE ForestSize(_)
TreeSize(t) == 1 + ForestSize(t.subErrors)
ForestSize(f) == IF f = <<>> THEN 0 ELSE TreeSize(Head(f)) + ForestSize(Tail(f))

(* every node gets its own message: "m" and its number in document order *)
RECURSIVE Numbered(_, _)
RECURSIVE NumberedForest(_, _)
Numbered(t, n) == [t EXCEPT !.message = "m" \o ToString(n),
                            !.subErrors = NumberedForest(t.subErrors, n + 1)]
NumberedForest(f, n) ==
    IF f = <<>> THEN <<>>
    ELSE <<Numbered(Head(f), n)>> \o NumberedForest(Tail(f), n + TreeSize(Head(f)))

ErrorTrees == {Numbered(t, 1) : t \in UNION {TreesOfSize(n) : n \in 1..MaxNodes}}

(* the tree of the specifications that do not flatten *)
OneLeaf == Node(CHOOSE kind \in NodeKinds : kind.key # Undef, "m1", <<>>)

NotFlattened == [done |-> FALSE, hash |-> EmptyHash]

(***************************************************************************)
(* The pipeline returned by handleRpcs, one instance per request           *)
(***************************************************************************)
Reqs == DOMAIN pc

(* ---- addError.js: the reporters and tv4's error reporter ---- *)

(* the reporters of lines 37-68, named after the keyword they test *)
Builtin(keyword) == [name |-> keyword, builtin |-> TRUE, keyword |-> keyword, text |-> ""]

(* reporters a service adds: the one of the README, the one of the comment
   of lines 14-16, one that returns the empty string, one for required *)
UserReporters ==
    {[name |-> "readme", builtin |-> FALSE, keyword |-> "minLength", text |-> "Too short"],
     [name |-> "always", builtin |-> FALSE, keyword |-> "any", text |-> "My custom error"],
     [name |-> "silent", builtin |-> FALSE, keyword |-> "any", text |-> ""],
     [name |-> "missing", builtin |-> FALSE, keyword |-> "required", text |-> "Missing"]}

(* the errors tv4 hands to the reporter, with the schema they were found in *)
ReportedErrors ==
    {[schemaPath |-> <<"required", "0">>, key |-> "name", title |-> "", limit |-> ""],
     [schemaPath |-> <<"properties", "name", "minLength">>, key |-> Undef,
      title |-> "Name", limit |-> "2"],
     [schemaPath |-> <<"properties", "name", "maxLength">>, key |-> Undef,
      title |-> "Name", limit |-> "8"],
     [schemaPath |-> <<"properties", "name", "pattern">>, key |-> Undef,
      title |-> "Name", limit |-> ""],
     [schemaPath |-> <<"properties", "name", "type">>, key |-> Undef,
      title |-> "Name", limit |-> ""]}

(* /keyword/.test(schemaPath) *)
TestKeyword(keyword, schemaPath) ==
    IF keyword = "required" THEN TestRequired(schemaPath)
    ELSE \E i \in 1..Len(schemaPath) : schemaPath[i] = keyword

BuiltinMessage(keyword, error) ==
    CASE keyword = "required" -> Humanize(error.key) \o " is required"
      [] keyword = "minLength" ->
             error.title \o " must be at least " \o error.limit \o " characters long"
      [] keyword = "maxLength" ->
             error.title \o " must be less than " \o error.limit \o " characters long"
      [] OTHER -> error.title \o " is invalid"

(* currentFn(...args): undefined when the reporter's test fails *)
RunReporter(fn, error) ==
    IF fn.keyword # "any" /\ ~TestKeyword(fn.keyword, error.schemaPath) THEN Undef
    ELSE IF fn.builtin THEN BuiltinMessage(fn.keyword, error)
    ELSE fn.text

(* the initial value of the reduce of line 33 *)
NullMessage == "null"

(* message || ... : which messages let the next reporter run *)
FalsyMessage(message) == message \in {NullMessage, Undef, ""}

(* _errors.push(fn) in place of unshift *)
Push(fns, fn) == Append(fns, fn)

(* line 28: _errors.unshift(fn) *)
Unshift(fns, fn) == <<fn>> \o fns

(* lines 37-68: the four addError calls of the module, in their order *)
RECURSIVE AddAll(_, _)
AddAll(fns, added) ==
    IF added = <<>> THEN fns ELSE AddAll(Unshift(fns, Head(added)), Tail(added))

BuiltinReporters ==
    AddAll(<<>>, <<Builtin("required"), Builtin("minLength"),
                   Builtin("maxLength"), Builtin("pattern")>>)

(* lines 31-34: _errors.reduce((message, currentFn) => message || currentFn(...args), null),
   with the reporters that were called *)
RECURSIVE ReduceReporters(_, _, _)
ReduceReporters(acc, fns, error) ==
    IF fns = <<>> THEN acc
    ELSE IF ~FalsyMessage(acc.message) THEN ReduceReporters(acc, Tail(fns), error)
    ELSE ReduceReporters([message |-> RunReporter(Head(fns), error),
                          consulted |-> Append(acc.consulted, Head(fns))],
                         Tail(fns), error)

NotReported == [done |-> FALSE]

(* the array the default of a property refers to, as the schema declares it *)
DeclaredDefault == <<>>

InitOver(slots, dirs, trees) ==
    /\ _errors = BuiltinReporters
    /\ reported = NotReported
    /\ sharedDefault = DeclaredDefault
    /\ rpcDir \in dirs
    /\ startup = IF LoadThrows(rpcDir) THEN "threw" ELSE "listening"
    /\ tree \in trees
    /\ flat = NotFlattened
    /\ production \in BOOLEAN
    /\ pc = [r \in slots |-> "idle"]
    /\ req = [r \in slots |-> NoReq]
    /\ js = [r \in slots |-> JsInit]
    /\ err = [r \in slots |-> NoErr]
    /\ resp = [r \in slots |-> NoResp]
    /\ calls = [r \in slots |-> 0]
    /\ handlerArgs = [r \in slots |-> <<>>]
    /\ sink = {}
    /\ fnCalls = [r \in slots |-> <<>>]
    /\ stages = [r \in slots |-> <<>>]
    /\ returned = [r \in slots |-> Undef]

Init == InitOver(1..NumReqs, {StandardDir}, {OneLeaf})

InitPair == InitOver(1..NumPair, {StandardDir}, {OneLeaf})

InitRegistry == InitOver(1..NumReqs, {StandardDir, ReadmeDir}, {OneLeaf})

InitFlatten == InitOver(1..NumReqs, {StandardDir}, ErrorTrees)

(* PassThrough calling fn without returning what it returns *)
PassThroughNoReturn(r, body, ct, ret) ==
    /\ pc[r] = "idle"
    /\ ct # JsonType
    /\ req' = [req EXCEPT ![r] = [contentType |-> ct, body |-> body]]
    /\ fnCalls' = [fnCalls EXCEPT ![r] =
                       Append(@, [req |-> [contentType |-> ct, body |-> body],
                                  ret |-> ret])]
    /\ resp' = [resp EXCEPT ![r] = [passed |-> Undef]]
    /\ pc' = [pc EXCEPT ![r] = "passed"]
    /\ UNCHANGED <<production, js, err, calls, handlerArgs, sink, stages, returned>>

(* line 166-168: not an rpc request, hand over to fn *)
PassThrough(r, body, ct, ret) ==
    /\ pc[r] = "idle"
    /\ ct # JsonType
    /\ req' = [req EXCEPT ![r] = [contentType |-> ct, body |-> body]]
    /\ fnCalls' = [fnCalls EXCEPT ![r] =
                       Append(@, [req |-> [contentType |-> ct, body |-> body],
                                  ret |-> ret])]
    /\ resp' = [resp EXCEPT ![r] = [passed |-> ret]]
    /\ pc' = [pc EXCEPT ![r] = "passed"]
    /\ UNCHANGED <<production, js, err, calls, handlerArgs, sink, stages, returned>>

(* lines 166-175: an rpc request; js = {id: null}, then await json(req) *)
Receive(r, body) ==
    /\ pc[r] = "idle"
    /\ req' = [req EXCEPT ![r] = [contentType |-> JsonType, body |-> body]]
    /\ js' = [js EXCEPT ![r] = JsInit]
    /\ pc' = [pc EXCEPT ![r] = "reading"]
    /\ UNCHANGED <<production, err, resp, calls, handlerArgs, sink, fnCalls, stages,
                   returned>>

(* lines 175-226: json(req) settles; the try block runs up to the call *)
BodyRead(r) ==
    /\ pc[r] = "reading"
    /\ LET body == req[r].body
       IN IF body.kind = "malformed"
          THEN /\ err' = [err EXCEPT ![r] =
                             RpcError(serializeError(Fault("SyntaxError")), "Parse error",
                                      -32700)]
               /\ pc' = [pc EXCEPT ![r] = "caught"]
               /\ stages' = [stages EXCEPT ![r] = <<"parse">>]
               /\ UNCHANGED <<js, calls, handlerArgs>>
          ELSE LET out == AfterParse(body)
               IN /\ js' = [js EXCEPT ![r] = out.js]
                  /\ stages' = [stages EXCEPT ![r] = <<"parse">> \o out.stages]
                  /\ IF out.t = "throw"
                     THEN /\ err' = [err EXCEPT ![r] = out.err]
                          /\ pc' = [pc EXCEPT ![r] = "caught"]
                          /\ UNCHANGED <<calls, handlerArgs>>
                     ELSE /\ calls' = [calls EXCEPT ![r] = @ + 1]
                          /\ handlerArgs' = [handlerArgs EXCEPT ![r] = Append(@, out.js.params)]
                          /\ pc' = [pc EXCEPT ![r] = "awaiting"]
                          /\ UNCHANGED err
    /\ UNCHANGED <<production, req, resp, sink, fnCalls, returned>>

(* what the function found under a name that is no registered method returns *)
BuiltinResult(name) == IF name = "toString" THEN "[object Object]" ELSE "Object(params)"

MayReturn(name) == IF name \in Registered THEN Results ELSE {BuiltinResult(name)}

(* lines 226-229: the method returns (or its promise resolves) *)
HandlerReturns(r, result) ==
    /\ pc[r] = "awaiting"
    /\ result \in MayReturn(js[r].method)
    /\ returned' = [returned EXCEPT ![r] = result]
    /\ resp' = [resp EXCEPT ![r] = SuccessResponse(result, js[r].id)]
    /\ pc' = [pc EXCEPT ![r] = "done"]
    /\ UNCHANGED <<production, req, js, err, calls, handlerArgs, sink, fnCalls, stages>>

(* lines 226, 230: the method throws (or its promise rejects) *)
HandlerThrows(r, e) ==
    /\ pc[r] = "awaiting"
    /\ js[r].method \in Registered
    /\ err' = [err EXCEPT ![r] = e]
    /\ pc' = [pc EXCEPT ![r] = "caught"]
    /\ UNCHANGED <<production, req, js, resp, calls, handlerArgs, sink, fnCalls, stages,
                   returned>>

(* lines 231-238: report a fault to console.error in production *)
CatchLog(r) ==
    /\ pc[r] = "caught"
    /\ sink' = IF ~err[r].isRpc /\ production
               THEN sink \cup {[message |-> "Error occured in RPC function",
                                error |-> serializeError(err[r]),
                                by |-> r]}
               ELSE sink
    /\ pc' = [pc EXCEPT ![r] = "logged"]
    /\ UNCHANGED <<production, req, js, err, resp, calls, handlerArgs, fnCalls, stages,
                   returned>>

(* ResponseError redacting the data of every error in production *)
ResponseErrorRedactAll(e, prod) ==
    IF e.isRpc THEN RpcError(IF prod THEN DFalse ELSE e.data, e.message, e.code)
    ELSE RpcError(IF ~prod THEN serializeError(e) ELSE DFalse, "Internal error", -32603)

(* ResponseError never attaching the serialized fault *)
ResponseErrorNoDetail(e, prod) ==
    IF e.isRpc THEN e
    ELSE RpcError(DFalse, "Internal error", -32603)

(* ResponseError attaching the serialized fault in every mode *)
ResponseErrorLeaky(e, prod) ==
    IF e.isRpc THEN e
    ELSE RpcError(serializeError(e), "Internal error", -32603)

(* lines 241-247: the error the response carries *)
ResponseError(e, prod) ==
    IF e.isRpc THEN e
    ELSE RpcError(IF ~prod THEN serializeError(e) ELSE DFalse, "Internal error", -32603)

(* IdOf reading the id the pipeline started with *)
IdOfInitial(j) == JsInit.id

(* js.id, which throws when js is null *)
IdOf(j) == IF j.kind = "object" THEN j.id ELSE Undef

(* lines 241-249: build the error response; reading js.id of null throws *)
CatchRespond(r) ==
    /\ pc[r] = "logged"
    /\ IF js[r].kind = "null"
       THEN /\ pc' = [pc EXCEPT ![r] = "rejected"]
            /\ UNCHANGED resp
       ELSE LET e == ResponseError(err[r], production)
            IN /\ resp' = [resp EXCEPT ![r] =
                              ErrorResponse(e.code, e.message, e.data, IdOf(js[r]))]
               /\ pc' = [pc EXCEPT ![r] = "done"]
    /\ UNCHANGED <<production, req, js, err, calls, handlerArgs, sink, fnCalls, stages,
                   returned>>

Step(r, bodies) ==
  /\ startup = "listening"
  /\ UNCHANGED <<rpcDir, startup, tree, flat, _errors, reported, sharedDefault>>
  /\
    \/ \E body \in PassBodies, ct \in ContentTypes, ret \in FnReturns :
           PassThrough(r, body, ct, ret)
    \/ \E body \in bodies : Receive(r, body)
    \/ BodyRead(r)
    \/ \E result \in Results \cup {BuiltinResult(k) : k \in InheritedFunctions} :
           HandlerReturns(r, result)
    \/ \E e \in ApplicationErrors \cup {Fault(f) : f \in Faults} : HandlerThrows(r, e)
    \/ CatchLog(r)
    \/ CatchRespond(r)

Next == \E r \in Reqs : Step(r, Bodies)

NextPair == \E r \in Reqs : Step(r, PairBodies)

NextRegistry == \E r \in Reqs : Step(r, RegistryBodies)

(* line 226: a method, while it runs, adds an element to the array it was
   given as params.tags; line 203 has put the array of the schema there *)
HandlerMutates(r) ==
    /\ pc[r] = "awaiting"
    /\ GetParam(js[r].params, "tags") = SharedArray
    /\ \A i \in 1..Len(sharedDefault) : sharedDefault[i] # js[r].id
    /\ sharedDefault' = Append(sharedDefault, js[r].id)
    /\ UNCHANGED <<production, pc, req, js, err, resp, calls, handlerArgs, sink, fnCalls,
                   stages, returned, rpcDir, startup, tree, flat, _errors, reported>>

NextShared ==
    \/ \E r \in Reqs : Step(r, SharedBodies)
    \/ \E r \in Reqs : HandlerMutates(r)

(* _makeHashOutOfValidateErrors({}, error), as lines 184 and 215 call it *)
Flatten ==
    /\ ~flat.done
    /\ flat' = [done |-> TRUE, hash |-> _makeHashOutOfValidateErrors(EmptyHash, tree)]
    /\ UNCHANGED <<production, pc, req, js, err, resp, calls, handlerArgs, sink, fnCalls,
                   stages, returned, rpcDir, startup, tree, _errors, reported, sharedDefault>>

NextFlatten == Flatten

(* lines 27-29: addError(fn), called by the service *)
addError(fn) ==
    /\ Len(_errors) < Len(BuiltinReporters) + MaxAdded
    /\ _errors' = Unshift(_errors, fn)
    /\ UNCHANGED <<production, pc, req, js, err, resp, calls, handlerArgs, sink, fnCalls,
                   stages, returned, rpcDir, startup, tree, flat, reported, sharedDefault>>

(* lines 30-35: tv4 calls the error reporter for an error *)
Report(error) ==
    /\ reported' = [done |-> TRUE, error |-> error, fns |-> _errors,
                    result |-> ReduceReporters([message |-> NullMessage, consulted |-> <<>>],
                                               _errors, error)]
    /\ UNCHANGED <<production, pc, req, js, err, resp, calls, handlerArgs, sink, fnCalls,
                   stages, returned, rpcDir, startup, tree, flat, _errors, sharedDefault>>

NextReporters ==
    \/ \E fn \in UserReporters : addError(fn)
    \/ \E error \in ReportedErrors : Report(error)

Spec == Init /\ [][Next]_vars

SpecPair == InitPair /\ [][NextPair]_vars

SpecRegistry == InitRegistry /\ [][NextRegistry]_vars

SpecFlatten == InitFlatten /\ [][NextFlatten]_vars

SpecShared == InitPair /\ [][NextShared]_vars

SpecReporters == Init /\ [][NextReporters]_vars

(***************************************************************************)
(* Properties                                                              *)
(***************************************************************************)
IsRpcRequest(r) == req[r].contentType = JsonType

Settled(r) == pc[r] \in {"done", "rejected"}

(* the thrown value the catch block received, if any *)
Caught(r) == err[r] # NoErr

(* the value of params the caller sent under a key *)
Provided(body, property) ==
    IF body.params.k = "object" THEN OwnValue(body.params.o, property) ELSE Undef

(* the request passes the envelope, names a registered method and its
   params are accepted *)
Accepted(body) ==
    /\ body.kind = "object"
    /\ validateRequest(body).valid
    /\ body.method \in Registered
    /\ validateResult(ParamsOrEmpty(DefaultedParams(body.method, body.params)),
                      methods[body.method].paramsSchema).valid

(* C1: an application/json request always ends in one response value; the
   pipeline never throws or rejects to its caller. *)
C1_ReturnsOneResponse ==
    \A r \in Reqs :
        IsRpcRequest(r) =>
            /\ pc[r] # "rejected"
            /\ pc[r] = "done" => "jsonrpc" \in DOMAIN resp[r]

(* C2: a body that fails to decode ends in the error -32700 "Parse error"
   with id null, and nothing after the parse stage runs: no envelope
   validation, no lookup, no call. *)
C2_ParseError ==
    \A r \in Reqs :
        (IsRpcRequest(r) /\ req[r].body.kind = "malformed" /\ pc[r] # "reading") =>
            /\ stages[r] = <<"parse">>
            /\ calls[r] = 0
            /\ pc[r] # "rejected"
            /\ pc[r] = "done" =>
                   /\ DOMAIN resp[r] = {"jsonrpc", "error", "id"}
                   /\ resp[r].error.code = -32700
                   /\ resp[r].error.message = "Parse error"
                   /\ resp[r].id = "null"

C2_Witness ==
    \E r \in Reqs : IsRpcRequest(r) /\ req[r].body.kind = "malformed" /\ pc[r] = "done"

(* the answer C3 describes: -32600 with a hash keyed by the missing field *)
InvalidRequestKeyed(response, key) ==
    /\ "error" \in DOMAIN response
    /\ response.error.code = -32600
    /\ response.error.message = "Invalid request"
    /\ response.error.data.t = "hash"
    /\ DOMAIN response.error.data.h = {<<key>>}

(* C3, as claimed: every well-formed JSON body without a method member is
   answered -32600 "Invalid request" with a hash whose key is the first
   missing required field. *)
C3_AnyJsonLackingMethod ==
    \A r \in Reqs :
        (/\ IsRpcRequest(r)
         /\ req[r].body.kind # "malformed"
         /\ req[r].body.method = Undef
         /\ pc[r] = "done") =>
            InvalidRequestKeyed(resp[r], "method")

(* C3, amended: every JSON object body without a method member is answered
   -32600 "Invalid request" with a hash whose only key is method, the first
   missing required field. *)
C3_ObjectLackingMethod ==
    \A r \in Reqs :
        (/\ IsRpcRequest(r)
         /\ req[r].body.kind = "object"
         /\ req[r].body.method = Undef
         /\ Settled(r)) =>
            /\ pc[r] = "done"
            /\ InvalidRequestKeyed(resp[r], "method")

C3_Witness ==
    \E r \in Reqs :
        /\ IsRpcRequest(r) /\ pc[r] = "done"
        /\ req[r].body.kind = "object" /\ req[r].body.method = Undef
        /\ req[r].body.params = NumberParams

(* C4: an envelope-valid request whose method is not a registered name is
   answered -32601 "Method not found" with data null, and nothing is
   called. *)
C4_MethodNotFound ==
    \A r \in Reqs :
        (/\ IsRpcRequest(r)
         /\ req[r].body.kind = "object"
         /\ validateRequest(req[r].body).valid
         /\ req[r].body.method \notin Registered
         /\ pc[r] # "reading") =>
            /\ calls[r] = 0
            /\ pc[r] = "done" =>
                   resp[r] = ErrorResponse(-32601, "Method not found", DNull, req[r].body.id)

(* C5: every response carries the id known at its exit: null when the body
   did not parse, otherwise the id of the parsed request. *)
C5_ResponseId ==
    \A r \in Reqs :
        (IsRpcRequest(r) /\ pc[r] = "done") =>
            resp[r].id = CASE req[r].body.kind = "malformed" -> "null"
                           [] req[r].body.kind = "object" -> req[r].body.id
                           [] OTHER -> Undef

C5_Witness ==
    \E r \in Reqs :
        /\ IsRpcRequest(r) /\ pc[r] = "done"
        /\ req[r].body.id = "1"
        /\ "error" \in DOMAIN resp[r]
        /\ resp[r].error.code = -32602

(* C6: an accepted request has its method called exactly once, and when the
   method returns the response is the success response with the returned
   value and the request's id. *)
C6_DispatchOnce ==
    \A r \in Reqs :
        (IsRpcRequest(r) /\ Accepted(req[r].body) /\ pc[r] # "reading") =>
            /\ calls[r] = 1
            /\ pc[r] # "rejected"
            /\ (pc[r] = "done" /\ ~Caught(r)) =>
                   /\ returned[r] # Undef
                   /\ resp[r] = [jsonrpc |-> "2.0", result |-> returned[r],
                                  id |-> req[r].body.id]

C6_Witness ==
    \E r \in Reqs :
        /\ IsRpcRequest(r) /\ Accepted(req[r].body) /\ pc[r] = "done"
        /\ returned[r] = "hello X" /\ req[r].body.id = "1"

(* the properties of the composed schema of a method, as injection sees them *)
ComposedProperties(name) ==
    _resolveAndCombineAllOfs(methods[name].paramsSchema).schema.properties

(* C7: after injection, for every property of the composed schema that
   declares a default, params[property] is the value the caller provided,
   or the default when the caller provided none. *)
C7_DefaultsInjected ==
    \A r \in Reqs :
        (/\ IsRpcRequest(r)
         /\ \E i \in 1..Len(stages[r]) : stages[r][i] = "inject") =>
            LET properties == ComposedProperties(js[r].method)
            IN \A i \in 1..Len(properties) :
                   properties[i].v.default # NoDefault =>
                       LET provided == Provided(req[r].body, properties[i].k)
                       IN /\ js[r].params.k = "object"
                          /\ Member(js[r].params.o, properties[i].k) =
                                 IF provided # Undef THEN provided
                                 ELSE properties[i].v.default

(* C8: an RpcError thrown by the method reaches the response with its own
   code, message and data, in production or not. *)
C8_ApplicationErrorVerbatim ==
    \A r \in Reqs :
        (IsRpcRequest(r) /\ calls[r] = 1 /\ Caught(r) /\ err[r].isRpc /\ Settled(r)) =>
            /\ pc[r] = "done"
            /\ DOMAIN resp[r] = {"jsonrpc", "error", "id"}
            /\ resp[r].error = [code |-> err[r].code, message |-> err[r].message,
                                data |-> err[r].data]

C8_Witness ==
    \E r \in Reqs :
        /\ production /\ pc[r] = "done" /\ calls[r] = 1
        /\ err[r] = RpcError(DValue("details"), "Not allowed", 403)

(* C9: a thrown value that is no RpcError, from the method or from a step
   after parsing, is answered -32603 "Internal error", and outside
   production the data is the serialized fault. *)
C9_InternalError ==
    \A r \in Reqs :
        (IsRpcRequest(r) /\ Caught(r) /\ ~err[r].isRpc /\ Settled(r)) =>
            /\ pc[r] = "done"
            /\ DOMAIN resp[r] = {"jsonrpc", "error", "id"}
            /\ resp[r].error.code = -32603
            /\ resp[r].error.message = "Internal error"
            /\ ~production => resp[r].error.data = serializeError(err[r])

C9_Witness ==
    \E r \in Reqs :
        /\ ~production /\ pc[r] = "done"
        /\ err[r] = Fault("Error: boom")
        /\ resp[r].error.data = serializeError(Fault("Error: boom"))

(* C10: in production two runs of the same request whose methods throw
   faults get the same response whatever the faults are, each fault is in
   the sink before its response is built, and no RpcError is ever in the
   sink. *)
C10_ProductionRedaction ==
    /\ \A r1, r2 \in Reqs :
           (/\ production
            /\ pc[r1] = "done" /\ pc[r2] = "done"
            /\ req[r1] = req[r2]
            /\ Caught(r1) /\ ~err[r1].isRpc
            /\ Caught(r2) /\ ~err[r2].isRpc) =>
               resp[r1] = resp[r2]
    /\ \A r \in Reqs :
           (production /\ Caught(r) /\ ~err[r].isRpc /\ pc[r] \in {"logged", "done"}) =>
               \E entry \in sink : entry.by = r /\ entry.error = serializeError(err[r])
    /\ \A entry \in sink : ~entry.error.of.isRpc

C10_Witness ==
    /\ production
    /\ \E r1, r2 \in Reqs :
           /\ r1 # r2
           /\ pc[r1] = "done" /\ pc[r2] = "done"
           /\ req[r1] = req[r2]
           /\ err[r1] = Fault("Error: boom")
           /\ err[r2] = Fault("TypeError: x is undefined")
           /\ Cardinality(sink) = 2

(* C11: every response has jsonrpc "2.0" and exactly one of the members
   result and error, and an error member has exactly code, message and
   data. *)
C11_ResultXorError ==
    \A r \in Reqs :
        (IsRpcRequest(r) /\ pc[r] = "done") =>
            /\ "jsonrpc" \in DOMAIN resp[r]
            /\ resp[r].jsonrpc = "2.0"
            /\ ("result" \in DOMAIN resp[r]) # ("error" \in DOMAIN resp[r])
            /\ "error" \in DOMAIN resp[r] =>
                   DOMAIN resp[r].error = {"code", "message", "data"}

C11_Witness ==
    \E r \in Reqs :
        /\ IsRpcRequest(r) /\ pc[r] = "done"
        /\ "error" \in DOMAIN resp[r]
        /\ "result" \notin DOMAIN resp[r]
        /\ resp[r].error.code = -32601
        /\ resp[r].error.data = DNull

HasStage(r, stage) == \E i \in 1..Len(stages[r]) : stages[r][i] = stage

Started(r) == pc[r] \notin {"idle", "reading"}

(* C12: the composed schema of a method with allOf holds every property of
   the schemas it composes and its own, and a property the method's schema
   declares itself keeps the method's declaration, so the default injected
   is the method's own. *)
C12_OwnPropertiesWin ==
    \A r \in Reqs :
        (/\ IsRpcRequest(r) /\ Started(r) /\ HasStage(r, "inject")
         /\ methods[js[r].method].paramsSchema.allOf # <<>>
         /\ err[r] # StackExhausted) =>
            LET schema == methods[js[r].method].paramsSchema
                composed == ComposedProperties(js[r].method)
            IN /\ \A i \in 1..Len(schema.allOf) :
                      LET base == _resolveAndCombineAllOfs(tv4Schemas[schema.allOf[i]])
                      IN \A j \in 1..Len(base.schema.properties) :
                             HasOwn(composed, base.schema.properties[j].k)
               /\ \A i \in 1..Len(schema.properties) :
                      LET own == schema.properties[i]
                      IN /\ HasOwn(composed, own.k)
                         /\ LookupProperty(composed, own.k) = own.v
                         /\ (own.v.default # NoDefault /\ Provided(req[r].body, own.k) = Undef)
                                => OwnValue(js[r].params.o, own.k) = own.v.default

(* C15: a method file without paramsSchema is registered, and a request to
   it is dispatched with the request's params as they came: no injection,
   no params validation, no -32602. *)
C15_SchemalessMethodServed ==
    \A file \in rpcDir :
        (file.isMethod /\ ~file.hasParamsSchema) =>
            /\ startup = "listening"
            /\ \A r \in Reqs :
                   (IsRpcRequest(r) /\ Started(r) /\ req[r].body.method = file.name) =>
                       /\ ~HasStage(r, "inject")
                       /\ ~HasStage(r, "validate")
                       /\ calls[r] = 1
                       /\ handlerArgs[r] = <<req[r].body.params>>

(* C16: a request of another content type goes to fn, once, as it came, and
   what fn returns is returned; nothing of the pipeline runs.  A request of
   the rpc content type never reaches fn. *)
C16_OtherContentTypePasses ==
    \A r \in Reqs :
        /\ (pc[r] # "idle" /\ ~IsRpcRequest(r)) =>
               /\ pc[r] = "passed"
               /\ Len(fnCalls[r]) = 1
               /\ fnCalls[r][1].req = req[r]
               /\ resp[r] = [passed |-> fnCalls[r][1].ret]
               /\ stages[r] = <<>>
               /\ calls[r] = 0
               /\ js[r] = JsInit
               /\ err[r] = NoErr
        /\ IsRpcRequest(r) => fnCalls[r] = <<>>

C16_Witness ==
    \E r \in Reqs :
        /\ pc[r] = "passed"
        /\ req[r].contentType = "application/json; charset=utf-8"
        /\ req[r].body.kind = "malformed"
        /\ resp[r] = [passed |-> "page"]

StageOrder == <<"parse", "envelope", "lookup", "inject", "validate", "dispatch">>

StageIndex(stage) == CHOOSE i \in 1..Len(StageOrder) : StageOrder[i] = stage

(* C17: the stages run in the order parse, envelope, lookup, inject,
   validate, dispatch and the first that fails decides: an invalid envelope
   is answered -32600 whatever the method, and an unregistered method
   -32601 whatever the params. *)
C17_FirstFailingStageDecides ==
    \A r \in Reqs :
        (IsRpcRequest(r) /\ Started(r)) =>
            /\ stages[r] # <<>>
            /\ stages[r][1] = "parse"
            /\ \A i \in 1..(Len(stages[r]) - 1) :
                   StageIndex(stages[r][i]) < StageIndex(stages[r][i + 1])
            /\ (pc[r] = "done" /\ req[r].body.kind # "malformed") =>
                   /\ ~validateRequest(req[r].body).valid
                          => ("error" \in DOMAIN resp[r] /\ resp[r].error.code = -32600)
                   /\ (validateRequest(req[r].body).valid
                          /\ req[r].body.method \notin Registered)
                          => ("error" \in DOMAIN resp[r] /\ resp[r].error.code = -32601)

(* C19: resolving the composition of a registered schema never runs out of
   stack while a request is served: a schema that reaches itself through
   allOf is refused when the registry is built, so no request meets it. *)
C19_CompositionTerminates == \A r \in Reqs : err[r] # StackExhausted

(* C20: for a method named in dontDefault nothing is injected: validation
   and the method get the params of the request; for every other registered
   method injection runs. *)
C20_DontDefaultSkipsInjection ==
    \A r \in Reqs :
        (/\ IsRpcRequest(r) /\ Started(r)
         /\ req[r].body.kind = "object"
         /\ validateRequest(req[r].body).valid
         /\ req[r].body.method \in Registered) =>
            IF req[r].body.method \in {"quiet"}
            THEN /\ ~HasStage(r, "inject")
                 /\ HasStage(r, "validate")
                 /\ js[r].params = req[r].body.params
                 /\ calls[r] = 1 => handlerArgs[r] = <<req[r].body.params>>
            ELSE HasStage(r, "inject")

C20_Witness ==
    \E r \in Reqs :
        /\ IsRpcRequest(r) /\ pc[r] = "done"
        /\ req[r].body.method = "quiet"
        /\ req[r].body.params = NoParams
        /\ handlerArgs[r] = <<NoParams>>
        /\ "result" \in DOMAIN resp[r]

(* a violation of a required-field rule: tv4 reports it at .../required/<index> *)
IsRequiredRule(validateError) ==
    /\ Len(validateError.schemaPath) >= 2
    /\ validateError.schemaPath[Len(validateError.schemaPath) - 1] = "required"

(* C13: flattening a required-field violation with params.key K gives the
   map with the one entry K -> message, and nothing under the empty path. *)
C13_RequiredLeafKeyedByField ==
    (flat.done /\ IsRequiredRule(tree) /\ tree.subErrors = <<>>) =>
        /\ DOMAIN flat.hash = {<<tree.params.key>>}
        /\ flat.hash[<<tree.params.key>>] = tree.message
        /\ <<"">> \notin DOMAIN flat.hash

C13_Witness ==
    /\ flat.done
    /\ tree.schemaPath = <<"required", "0">>
    /\ tree.params.key = "title"
    /\ tree.subErrors = <<>>
    /\ flat.hash[<<"title">>] = "m1"

(* C14: flattening a node that is no required-field violation stores its
   message under the path of its data pointer (/a/b gives a.b), whatever
   the property is called. *)
C14_OtherLeafKeyedByDataPointer ==
    (flat.done /\ ~IsRequiredRule(tree) /\ tree.subErrors = <<>> /\ tree.dataPath # <<>>) =>
        /\ DOMAIN flat.hash = {tree.dataPath}
        /\ flat.hash[tree.dataPath] = tree.message

(* the nodes of a tree in the order the flattener visits them *)
RECURSIVE Preorder(_)
RECURSIVE PreorderForest(_)
Preorder(t) == <<t>> \o PreorderForest(t.subErrors)
PreorderForest(f) == IF f = <<>> THEN <<>> ELSE Preorder(Head(f)) \o PreorderForest(Tail(f))

(* C18: every node of the tree has its path in the result, and the message
   there is the one of the node visited last among those with that path,
   also when another node's path is a prefix of it or extends it. *)
C18_LastVisitedWins ==
    flat.done =>
        LET visit == Preorder(tree)
        IN \A i \in 1..Len(visit) :
               LET path == ErrorPath(visit[i])
                   last == CHOOSE j \in i..Len(visit) :
                               /\ ErrorPath(visit[j]) = path
                               /\ \A k \in (j + 1)..Len(visit) : ErrorPath(visit[k]) # path
               IN /\ path \in DOMAIN flat.hash
                  /\ flat.hash[path] = visit[last].message

(* the reporters of a list whose message for an error is not empty *)
Winners(fns, error) == {i \in 1..Len(fns) : ~FalsyMessage(RunReporter(fns[i], error))}

First(indices) == CHOOSE i \in indices : \A j \in indices : i <= j

(* C22: the reporters are consulted from the one added last to the one added
   first; the message is that of the first whose message is not empty, the
   reporters behind it are not consulted, and a reporter the service added
   stands before every built-in one. *)
C22_ReporterPrecedence ==
    /\ [](/\ \A i, j \in 1..Len(_errors) : (i < j /\ _errors[i].builtin) => _errors[j].builtin
          /\ reported.done =>
                 LET winners == Winners(reported.fns, reported.error)
                 IN IF winners = {}
                    THEN /\ reported.result.consulted = reported.fns
                         /\ FalsyMessage(reported.result.message)
                    ELSE /\ reported.result.consulted =
                                SubSeq(reported.fns, 1, First(winners))
                         /\ reported.result.message =
                                RunReporter(reported.fns[First(winners)], reported.error))
    /\ [][_errors' # _errors => Tail(_errors') = _errors]_vars

C22_Witness ==
    /\ reported.done
    /\ Len(reported.fns) = Len(BuiltinReporters) + 2
    /\ reported.fns[1].name = "silent"
    /\ reported.fns[2].name = "readme"
    /\ reported.error.schemaPath = <<"properties", "name", "minLength">>
    /\ reported.result.message = "Too short"
    /\ Len(reported.result.consulted) = 2

ReservedCodes == {-32700, -32600, -32601, -32602}

AtMostOnceAsInjected(r) ==
    /\ calls[r] <= 1
    /\ Len(handlerArgs[r]) = calls[r]
    /\ calls[r] = 1 =>
           /\ handlerArgs[r] = <<js[r].params>>
           /\ req[r].body.method \in Registered =>
                  js[r].params = DefaultedParams(req[r].body.method, req[r].body.params)

(* C23 as stated: a run that ends with -32700, -32600, -32601 or -32602 has
   not invoked the handler; no run invokes it twice, and it gets the params
   as they are after the injection. *)
C23_ReservedCodeMeansNoCall ==
    \A r \in Reqs :
        IsRpcRequest(r) =>
            /\ AtMostOnceAsInjected(r)
            /\ (pc[r] = "done" /\ "error" \in DOMAIN resp[r]
                   /\ resp[r].error.code \in ReservedCodes) => calls[r] = 0

(* C23 for the exits of the pipeline itself: a run that leaves at the parse,
   the envelope, the lookup or the params validation has not invoked the
   handler and ends with the code of that stage; no run invokes the handler
   twice, and it gets the params as they are after the injection. *)
C23_EarlyExitNeverDispatches ==
    \A r \in Reqs :
        IsRpcRequest(r) =>
            /\ AtMostOnceAsInjected(r)
            /\ (Caught(r) /\ ~HasStage(r, "dispatch")) =>
                   /\ calls[r] = 0
                   /\ err[r].isRpc => err[r].code \in ReservedCodes
            /\ (/\ Started(r) /\ req[r].body.kind = "object"
                /\ validateRequest(req[r].body).valid
                /\ req[r].body.method \in Registered
                /\ ~Accepted(req[r].body)) =>
                   /\ calls[r] = 0
                   /\ err[r].isRpc /\ err[r].code = -32602

C23_Witness ==
    \E r \in Reqs :
        /\ IsRpcRequest(r) /\ pc[r] = "done"
        /\ req[r].body.method = "greet"
        /\ ~Accepted(req[r].body)
        /\ resp[r].error.code = -32602
        /\ calls[r] = 0

(* C21: however two requests interleave, a response carries the id of its
   own request and the result or the error of its own call, and the
   declared defaults of the registered schemas stay as they were declared. *)
C21_RequestsIsolated ==
    /\ \A r \in Reqs :
           (IsRpcRequest(r) /\ pc[r] = "done") =>
               /\ resp[r].id = req[r].body.id
               /\ ~Caught(r) => resp[r].result = returned[r]
               /\ Caught(r) => resp[r].error = ResponseError(err[r], production)
    /\ sharedDefault = DeclaredDefault

====
